---- MODULE Spec2Model ----
(***************************************************************************)
(* Model of the GameEngine class of competition/web (App.tsx 1638-2089).   *)
(*                                                                         *)
(* The engine is single-threaded JavaScript: one step of the model is one  *)
(* macrotask (a call of the public API, a worker message event, a timer)   *)
(* together with every promise continuation it makes runnable, which the   *)
(* runtime drains before the next macrotask.  A suspended async call chain *)
(* (play -> gameLoop -> executeSingleMove -> executeBotMove, or step ->    *)
(* executeSingleMove -> ...) is a record in `tasks`, positioned at the     *)
(* await it is parked on.                                                  *)
(*                                                                         *)
(* chess.js is the rules oracle.  It is abstracted to the number of plies  *)
(* played and the terminal class of the position; a square is abstracted   *)
(* to what the oracle reads from it: the from-square to the colour of the  *)
(* piece standing on it, the to-square to the class of the position the    *)
(* move produces.                                                          *)
(***************************************************************************)
EXTENDS Integers, Sequences, FiniteSets, TLC

\* ------------------------------------------------------------------ bounds
MaxPly == 2       \* every game is over after at most MaxPly plies
MaxTasks == 2     \* suspended async call chains alive at once
MaxOwed == 1      \* answers a worker owes to requests that have ended
MaxBots == 4      \* bots of the manifest
MaxMatches == 2   \* matches of a double-elimination bracket

\* --------------------------------------------------------------- constants
DEFAULT_TIME_LIMIT_MS == 10000
DEFAULT_MOVE_DELAY_MS == 500

VARIABLES
    chess,             \* this.chess: the oracle's live position
    state,             \* this.state: the GameState last built
    whiteWorker,       \* "null" or "worker"
    blackWorker,
    moveDelayMs,
    abortController,   \* "null" or "controller"
    stepping,
    humanMoveResolve,  \* "null" or "resolve" (of the task marked resolver)
    tasks,             \* suspended async call chains, oldest first
    loadPending,       \* the promise of loadPlayers is still pending
    owed,              \* per worker followed: the move messages it holds whose
                       \* request has ended, oldest first, each as how the
                       \* request ended
    match,             \* the locals of the call of playBotMatch, and the games
                       \* it has played
    single,            \* the tournament page, single elimination
    double             \* the tournament page, double elimination

vars == <<chess, state, whiteWorker, blackWorker, moveDelayMs, abortController,
          stepping, humanMoveResolve, tasks, loadPending, owed, match, single,
          double>>

Sides == {"w", "b"}
Other(side) == IF side = "w" THEN "b" ELSE "w"

\* ------------------------------------------------------------ rules oracle
TerminalKinds == {"checkmate", "stalemate", "repetition", "insufficient", "fifty"}
Kinds == {"none"} \cup TerminalKinds

INITIAL_FEN == [ply |-> 0, over |-> "none"]

Turn(c) == IF c.ply % 2 = 0 THEN "w" ELSE "b"
IsGameOver(c) == c.over # "none"
IsCheckmate(c) == c.over = "checkmate"
IsStalemate(c) == c.over = "stalemate"
IsThreefoldRepetition(c) == c.over = "repetition"
IsInsufficientMaterial(c) == c.over = "insufficient"
IsDraw(c) == c.over \in {"repetition", "insufficient", "fifty"}

\* A move is legal when the position is not over, the piece on the from-square
\* belongs to the side to move and the to-square names a position class; the
\* game is finite: the last ply allowed always ends it.
Legal(c, from, to) ==
    /\ ~IsGameOver(c)
    /\ from = Turn(c)
    /\ to \in Kinds
    /\ (to = "none" => c.ply + 1 < MaxPly)

ChessMove(c, to) == [ply |-> c.ply + 1, over |-> to]

\* ------------------------------------------------------- strings, messages
\* A text is a sequence of characters.
TIMEOUT == <<"t", "i", "m", "e", "o", "u", "t">>

Includes(s, p) ==
    \E i \in 1..(Len(s) - Len(p) + 1) : SubSeq(s, i, i + Len(p) - 1) = p

\* The rejection text of the timer of requestMove.
TimeoutMessage(turn) ==
    TIMEOUT \o <<":", " ">>
    \o (IF turn = "w" THEN <<"W", "h", "i", "t", "e">>
                      ELSE <<"B", "l", "a", "c", "k">>)
    \o <<" ", "b", "o", "t">>
    \o <<" ", "e", "x", "c", "e", "e", "d", "e", "d">>
    \o <<" ", "t", "i", "m", "e", " ", "l", "i", "m", "i", "t">>

\* Error texts a worker may report.
ErrorTexts == { <<"c", "r", "a", "s", "h">>,
                <<"n", "o", " ">> \o TIMEOUT }

\* A uci string is a sequence of squares (from, to); shorter sequences are
\* malformed strings.  substring(0,2) and substring(2,4) of the code:
UciFrom(uci) == IF Len(uci) >= 1 THEN uci[1] ELSE ""
UciTo(uci) == IF Len(uci) >= 2 THEN uci[2] ELSE ""
MakeUci(from, to) == <<from, to>>

FromSquares == {"w", "b"}
Ucis == {MakeUci(f, t) : f \in FromSquares, t \in Kinds} \cup {<<>>, <<"w">>}

\* ------------------------------------------------------------------ values
NoResult == [type |-> "null"]
Checkmate(winner) == [type |-> "checkmate", winner |-> winner]
Forfeit(loser, reason) == [type |-> "forfeit", loser |-> loser, reason |-> reason]

NoPlayer == [type |-> "null"]
HUMAN_PLAYER == [type |-> "human", bot |-> "null"]
BotPlayer == [type |-> "bot", bot |-> "bot"]
Players == {HUMAN_PLAYER, BotPlayer}

ElapsedMs == {7}

\* How chess.move refuses a move: it returns null, or it throws.
Failures == {"null", "throw"}

Range(s) == {s[i] : i \in 1..Len(s)}

\* getState(), and what emit() hands to onStateChange: `{ ...this.state }`, an
\* object of its own whose `moves` is the array of this.state, for as long as
\* this.state keeps that array (`shared`).
getState(st) == [state |-> st, shared |-> TRUE]

\* The whole engine as one value, threaded through the sequential code.
Cur ==
    [chess |-> chess, state |-> state, whiteWorker |-> whiteWorker,
     blackWorker |-> blackWorker, moveDelayMs |-> moveDelayMs,
     abortController |-> abortController,
     stepping |-> stepping, humanMoveResolve |-> humanMoveResolve,
     tasks |-> tasks, loadPending |-> loadPending, owed |-> owed,
     handed |-> getState(state), \* a GameState a consumer holds
     raised |-> FALSE,           \* the call has thrown to its caller
     returned |-> "undefined"]   \* what the call has returned

\* ------------------------------------------------ buildState, emit, finish
buildState(S, status, result) ==
    [status |-> status,
     result |-> result,
     fen |-> S.chess,
     moves |-> S.state.moves,
     currentTurn |-> Turn(S.chess),
     whitePlayer |-> S.state.whitePlayer,
     blackPlayer |-> S.state.blackPlayer,
     lastMoveTimeMs |-> S.state.lastMoveTimeMs,
     timeLimitMs |-> DEFAULT_TIME_LIMIT_MS]

\* `[...moves]` is a new array: the GameState built shares none with the
\* objects handed out before.
emit(S, status, result) ==
    [S EXCEPT !.state = buildState(S, status, result), !.handed.shared = FALSE]

\* `this.state.moves.push(moveRecord)`: the array grows in place, for every
\* object that holds it.
push(S, rec) ==
    [S EXCEPT !.state.moves = Append(@, rec),
              !.handed.state.moves = IF S.handed.shared THEN Append(@, rec) ELSE @]

isHumanTurn(S) ==
    LET player == IF Turn(S.chess) = "w" THEN S.state.whitePlayer
                  ELSE S.state.blackPlayer
    IN player.type = "human"

classify(c) ==
    IF IsCheckmate(c) THEN Checkmate(IF Turn(c) = "w" THEN "b" ELSE "w")
    ELSE IF IsStalemate(c) THEN [type |-> "stalemate"]
    ELSE IF IsThreefoldRepetition(c) THEN [type |-> "draw-repetition"]
    ELSE IF IsInsufficientMaterial(c) THEN [type |-> "draw-insufficient"]
    ELSE IF IsDraw(c) THEN [type |-> "draw-50-move"]
    ELSE NoResult

\* A faulty finishGame that knows checkmate only.
finishGameOnlyCheckmate(S) ==
    emit(S, "finished",
         IF IsCheckmate(S.chess) THEN Checkmate(Other(Turn(S.chess))) ELSE NoResult)

finishGame(S) ==
    emit(S, "finished", classify(S.chess))

\* A faulty move number that rounds down.
moveNumberRoundsDown(moves) ==
    Len(moves) \div 2 + 1

\* Math.ceil(n / 2) + 1
moveNumber(moves) ==
    (Len(moves) + 1) \div 2 + 1

\* A MoveRecord, without san and fen, which the oracle derives from the move.
MoveRecord(moves, uci, color, timeMs) ==
    [moveNumber |-> moveNumber(moves), uci |-> uci, color |-> color,
     timeMs |-> timeMs]

\* ------------------------------------------------------------------- tasks
\* A task is one suspended async call chain.
\*   kind      "play" (play -> gameLoop), "step" (the stepping branch of step),
\*             "stepHuman" (the human branch of step)
\*   wait      the await it is parked on: "move", "human" or "delay"
\*   sig       the AbortSignal gameLoop was given: "none", or where its
\*             controller stands: "current" (it is this.abortController),
\*             "aborted", or "replaced" (no longer referenced, never aborted)
\*   turn      of a "move" wait: the side asked, whose worker the message
\*             listener of the request is attached to
\*   dead      of a "move" wait: that worker has been terminated
\*   hsig      of a "human" wait: the controller its abort listener is on
\*             ("none", "current", "replaced")
\*   resolver  of a "human" wait: this.humanMoveResolve resolves its promise
\*   cancelled history: the last operation that cancelled the request in
\*             flight ("pause", "reset", "load"), or "no"
NewTask(kind, sig) ==
    [kind |-> kind, wait |-> "none", sig |-> sig, turn |-> "-", dead |-> FALSE,
     hsig |-> "none", resolver |-> FALSE, cancelled |-> "no"]

RemoveAt(s, i) == SubSeq(s, 1, i - 1) \o SubSeq(s, i + 1, Len(s))

\* `this.abortController = new AbortController()`: the controller referenced
\* until now is referenced no more.
newAbortController(S) ==
    [S EXCEPT !.abortController = "controller",
              !.tasks = [i \in 1..Len(@) |->
                  [@[i] EXCEPT !.sig = IF @ = "current" THEN "replaced" ELSE @,
                               !.hsig = IF @ = "current" THEN "replaced" ELSE @]]]

\* ------------------------------------------------------- the awaits
\* delay(): a timer and an abort listener on the loop's signal.
delay(S, t) ==
    [S EXCEPT !.tasks = Append(@, [t EXCEPT !.wait = "delay", !.cancelled = "no"])]

\* requestMove(): a timer, a message listener on the worker, one move message.
requestMove(S, t, turn) ==
    [S EXCEPT !.tasks = Append(@, [t EXCEPT !.wait = "move", !.turn = turn,
                                            !.dead = FALSE, !.cancelled = "no"])]

\* executeHumanMove() up to its await.
executeHumanMove(S, t) ==
    LET S1 == emit(S, "waiting-human", NoResult)
        others == [i \in 1..Len(S1.tasks) |-> [S1.tasks[i] EXCEPT !.resolver = FALSE]]
    IN  [S1 EXCEPT !.humanMoveResolve = "resolve",
                   !.tasks = Append(others,
                       [t EXCEPT !.wait = "human", !.resolver = TRUE, !.cancelled = "no",
                                 !.hsig = IF S1.abortController = "null" THEN "none"
                                          ELSE "current"])]

RECURSIVE gameLoop(_, _), executeSingleMove(_, _), afterExecuteSingleMove(_, _)

\* executeBotMove() up to its await.
executeBotMove(S, t, turn) ==
    LET worker == IF turn = "w" THEN S.whiteWorker ELSE S.blackWorker
    IN  IF worker = "null"
        THEN afterExecuteSingleMove(emit(S, "finished", Forfeit(turn, "invalid")), t)
        ELSE requestMove(emit(S, "running", NoResult), t, turn)

executeSingleMove(S, t) ==
    LET turn == Turn(S.chess)
        player == IF turn = "w" THEN S.state.whitePlayer ELSE S.state.blackPlayer
    IN  IF player.type = "null"
        THEN afterExecuteSingleMove(emit(S, "finished", Forfeit(turn, "invalid")), t)
        ELSE IF player.type = "human" THEN executeHumanMove(S, t)
        ELSE executeBotMove(S, t, turn)

\* What the caller does once `await this.executeSingleMove()` returns: the rest
\* of the loop body of gameLoop, or the tail of step.
afterExecuteSingleMove(S, t) ==
    IF t.kind = "play"
    THEN IF S.state.status = "finished" THEN S
         ELSE IF t.sig = "aborted" THEN S
         ELSE IF S.moveDelayMs > 0 /\ ~isHumanTurn(S) THEN delay(S, t)
         ELSE gameLoop(S, t)
    ELSE IF t.kind = "step" THEN [S EXCEPT !.stepping = FALSE]
    ELSE S

\* gameLoop at the test of its while.
gameLoop(S, t) ==
    IF ~IsGameOver(S.chess) /\ t.sig # "aborted"
    THEN executeSingleMove(S, t)
    ELSE IF t.sig # "aborted" /\ IsGameOver(S.chess) THEN finishGame(S)
    ELSE S

\* The status emitted after a move has been applied.
emitAfterMove(S) ==
    IF IsGameOver(S.chess) THEN finishGame(S)
    ELSE IF ~S.stepping
    THEN IF isHumanTurn(S) THEN emit(S, "waiting-human", NoResult)
         ELSE emit(S, "running", NoResult)
    ELSE emit(S, "paused", NoResult)

\* A faulty catch that takes every rejection for an invalid move.
catchRequestErrorAlwaysInvalid(message, turn) == Forfeit(turn, "invalid")

\* The catch of executeBotMove around requestMove.
catchRequestError(message, turn) ==
    IF Includes(message, TIMEOUT) THEN Forfeit(turn, "timeout")
    ELSE Forfeit(turn, "invalid")

\* A faulty executeBotMove without the catch: what chess.move throws goes up
\* to the caller.
catchMoveErrorRethrows(S, turn) == [S EXCEPT !.raised = TRUE]

\* The catch of executeBotMove around the application of the move: what
\* chess.move throws ends the game by forfeit.
catchMoveError(S, turn) == emit(S, "finished", Forfeit(turn, "invalid"))

\* executeBotMove() from `const elapsed` on.  `failure` is how chess.move
\* refuses a move: "null" (it returns null) or "throw".
applyBotMove(S, turn, uci, elapsed, failure) ==
    LET from == UciFrom(uci)
        to == UciTo(uci)
    IN  IF ~Legal(S.chess, from, to)
        THEN IF failure = "null"
             THEN emit(S, "finished", Forfeit(turn, "invalid"))
             ELSE catchMoveError(S, turn)
        ELSE LET c == ChessMove(S.chess, to)
                 rec == MoveRecord(S.state.moves, uci, turn, elapsed)
                 S1 == [push(S, rec) EXCEPT !.chess = c,
                                            !.state.lastMoveTimeMs = elapsed]
             IN  emitAfterMove(S1)

\* executeBotMove() resumed by the settlement `r` of its request.
resumeBotMove(S, t, r, elapsed, failure) ==
    LET S1 == IF r.type = "error"
              THEN emit(S, "finished", catchRequestError(r.message, t.turn))
              ELSE applyBotMove(S, t.turn, r.uci, elapsed, failure)
    IN  afterExecuteSingleMove(S1, t)

\* executeHumanMove() resumed by submitHumanMove.
resumeHumanMove(S, t) == afterExecuteSingleMove(emitAfterMove(S), t)

\* AbortController.abort(): the signal's listeners run at once.  A delay and a
\* human wait listening on it reject, which play and step catch.
abort(S) ==
    IF S.abortController = "null" THEN S
    ELSE LET hit(t) == \/ t.wait = "delay" /\ t.sig = "current"
                       \/ t.wait = "human" /\ t.hsig = "current"
             left == SelectSeq(S.tasks, LAMBDA t : ~hit(t))
         IN  [S EXCEPT !.humanMoveResolve =
                           IF \E t \in Range(S.tasks) : t.wait = "human" /\ hit(t)
                           THEN "null" ELSE @,
                       !.tasks = [i \in 1..Len(left) |->
                           [left[i] EXCEPT !.sig = IF @ = "current" THEN "aborted" ELSE @]]]

\* history: the requests in flight are marked with what cancelled them
Cancel(S, by) ==
    [S EXCEPT !.tasks = [i \in 1..Len(@) |->
        IF @[i].wait = "move" THEN [@[i] EXCEPT !.cancelled = by] ELSE @[i]]]

\* ------------------------------------------------------ the public methods
\* cleanup(): abort, forget the human wait, terminate both workers.  A
\* terminated worker delivers nothing more; the timers of the requests that
\* were listening to it stay armed.
cleanup(S) ==
    LET S1 == abort(S)
    IN  [S1 EXCEPT !.abortController = "null",
                   !.humanMoveResolve = "null",
                   !.whiteWorker = "null",
                   !.blackWorker = "null",
                   !.loadPending = FALSE,
                   !.owed = [side \in DOMAIN @ |-> <<>>],
                   !.tasks = [i \in 1..Len(@) |->
                       [@[i] EXCEPT !.dead = (S1.tasks[i].wait = "move"),
                                    !.resolver = FALSE]]]

\* loadPlayers() up to `await Promise.all(loadPromises)`, or to its end when
\* neither player is a bot.
loadPlayers(S, whitePlayer, blackPlayer) ==
    LET S1 == Cancel(cleanup(S), "load")
        bots == {side \in Sides :
                    LET p == IF side = "w" THEN whitePlayer ELSE blackPlayer
                    IN  p.type = "bot" /\ p.bot # "null"}
        S2 == [S1 EXCEPT !.chess = INITIAL_FEN,
                         !.handed.shared = FALSE,
                         !.state = [status |-> "idle", result |-> NoResult,
                                    fen |-> INITIAL_FEN, moves |-> <<>>,
                                    currentTurn |-> "w",
                                    whitePlayer |-> whitePlayer,
                                    blackPlayer |-> blackPlayer,
                                    lastMoveTimeMs |-> 0,
                                    timeLimitMs |-> DEFAULT_TIME_LIMIT_MS],
                         !.whiteWorker = IF "w" \in bots THEN "worker" ELSE "null",
                         !.blackWorker = IF "b" \in bots THEN "worker" ELSE "null"]
    IN  IF bots = {} THEN emit(S2, "idle", NoResult)
        ELSE [S2 EXCEPT !.loadPending = TRUE]

\* loadPlayers() resumed: every worker has answered `ready`.
loadPlayersReady(S) == emit([S EXCEPT !.loadPending = FALSE], "idle", NoResult)

\* loadPlayers() rejecting to its caller (a load error, or the 30 s timer).
loadPlayersFails(S) == [S EXCEPT !.loadPending = FALSE, !.raised = TRUE]

play(S) ==
    IF S.state.status = "finished" THEN S
    ELSE IF S.state.status = "running" THEN S
    ELSE LET S1 == newAbortController(S)
             S2 == IF isHumanTurn(S1) THEN emit(S1, "waiting-human", NoResult)
                   ELSE emit(S1, "running", NoResult)
         IN  gameLoop(S2, NewTask("play", "current"))

pause(S) ==
    IF S.state.status # "running" /\ S.state.status # "waiting-human" THEN S
    ELSE LET S1 == Cancel(abort(S), "pause")
         IN  emit([S1 EXCEPT !.abortController = "null",
                             !.humanMoveResolve = "null",
                             !.tasks = [i \in 1..Len(@) |->
                                           [@[i] EXCEPT !.resolver = FALSE]]],
                  "paused", NoResult)

step(S) ==
    IF S.state.status = "finished" THEN S
    ELSE IF S.state.status = "running" THEN S
    ELSE IF isHumanTurn(S)
    THEN LET S1 == emit(newAbortController(S), "waiting-human", NoResult)
         IN  executeSingleMove(S1, NewTask("stepHuman", "none"))
    ELSE executeSingleMove([S EXCEPT !.stepping = TRUE], NewTask("step", "none"))

\* submitHumanMove() once chess.move has accepted the move, and the
\* continuation of the human wait it resolves.
acceptHumanMove(S, from, to) ==
    LET uci == MakeUci(from, to)
        rec == MoveRecord(S.state.moves, uci, Turn(S.chess), 0)
        S1 == [push(S, rec) EXCEPT !.chess = ChessMove(S.chess, to),
                                   !.state.lastMoveTimeMs = 0,
                                   !.returned = "true"]
    IN  IF S1.humanMoveResolve = "null" THEN S1
        ELSE LET i == CHOOSE i \in 1..Len(S1.tasks) : S1.tasks[i].resolver
                 S2 == [S1 EXCEPT !.humanMoveResolve = "null",
                                  !.tasks = RemoveAt(@, i)]
             IN  resumeHumanMove(S2, S1.tasks[i])

\* A faulty submitHumanMove that forgets the human wait when it refuses a move.
submitHumanMoveForgetsWait(S, from, to) ==
    IF ~Legal(S.chess, from, to)
    THEN [S EXCEPT !.returned = "false", !.humanMoveResolve = "null"]
    ELSE acceptHumanMove(S, from, to)

\* submitHumanMove(): chess.move refuses the move (it returns null or throws)
\* or applies it.
submitHumanMove(S, from, to) ==
    IF ~Legal(S.chess, from, to) THEN [S EXCEPT !.returned = "false"]
    ELSE acceptHumanMove(S, from, to)

\* A faulty reset() that keeps the move history.
resetKeepsMoves(S) ==
    LET S1 == Cancel(abort(S), "reset")
    IN  emit([S1 EXCEPT !.abortController = "null",
                        !.humanMoveResolve = "null",
                        !.chess = INITIAL_FEN],
             "idle", NoResult)

reset(S) ==
    LET S1 == Cancel(abort(S), "reset")
        S2 == [S1 EXCEPT !.abortController = "null",
                         !.humanMoveResolve = "null",
                         !.tasks = [i \in 1..Len(@) |->
                                       [@[i] EXCEPT !.resolver = FALSE]],
                         !.chess = INITIAL_FEN,
                         !.handed.shared = FALSE,
                         !.state = [@ EXCEPT !.status = "idle",
                                             !.result = NoResult,
                                             !.fen = INITIAL_FEN,
                                             !.moves = <<>>,
                                             !.currentTurn = "w",
                                             !.lastMoveTimeMs = 0]]
    IN  emit(S2, "idle", NoResult)

\* ------------------------------------------------------ events
\* The requests whose message listener is attached to the worker of `side`.
Listening(t, side) == t.wait = "move" /\ t.turn = side /\ ~t.dead

\* One message event: each listener attached when it is dispatched runs,
\* oldest first, and the continuation it makes runnable runs before the next
\* listener.  A listener attached by such a continuation is not run.
RECURSIVE dispatch(_, _, _, _, _, _)
dispatch(S, n, side, msg, elapsed, failure) ==
    IF n = 0 THEN S
    ELSE LET i == CHOOSE i \in 1..Len(S.tasks) :
                      /\ Listening(S.tasks[i], side)
                      /\ \A j \in 1..(i - 1) : ~Listening(S.tasks[j], side)
             t == S.tasks[i]
             S1 == [S EXCEPT !.tasks = RemoveAt(@, i)]
             S2 == IF msg.type \in {"result", "error"}
                   THEN resumeBotMove(S1, t, msg, elapsed, failure)
                   ELSE S1   \* neither resolve nor reject: the request never settles
         IN  dispatch(S2, n - 1, side, msg, elapsed, failure)

\* A worker answers its messages in order, so its answer is to the oldest
\* message it holds: one whose request has ended, if there is any.  Every
\* listener attached runs and ends its request, which leaves the messages of
\* all of them but the one answered in the worker.
messageEvent(S, side, msg, elapsed, failure) ==
    LET n == Len(SelectSeq(S.tasks, LAMBDA t : Listening(t, side)))
        late == S.owed[side] # <<>>
        left == IF late THEN Tail(S.owed[side]) ELSE <<>>
        more == IF late THEN n ELSE n - 1
        S1 == IF side \in DOMAIN S.owed
              THEN [S EXCEPT !.owed[side] = left \o [k \in 1..more |-> "answered"]]
              ELSE S
    IN  dispatch(S1, n, side, msg, elapsed, failure)

\* The timer of requestMove fires: the request ends, its message stays with
\* the worker.
requestTimeout(S, i) ==
    LET t == S.tasks[i]
        S1 == IF t.dead \/ t.turn \notin DOMAIN S.owed THEN S
              ELSE [S EXCEPT !.owed[t.turn] = Append(@, "timeout")]
    IN  resumeBotMove([S1 EXCEPT !.tasks = RemoveAt(@, i)], t,
                      [type |-> "error", message |-> TimeoutMessage(t.turn)], 0, "null")

\* The timer of delay fires.
delayElapsed(S, i) == gameLoop([S EXCEPT !.tasks = RemoveAt(@, i)], S.tasks[i])

\* ------------------------------------------------ the best-of-3 series
\* playBotMatch plays every game of a series on the engine and reads the
\* engine's state when play() has returned.  Here a game is the state the
\* engine is found in: the match controller reads nothing else of it.
Bots == {"A", "B", "C"}
NoBot == "null"

TimeLimits == {DEFAULT_TIME_LIMIT_MS, DEFAULT_TIME_LIMIT_MS + DEFAULT_MOVE_DELAY_MS}

GameResults ==
    {Checkmate(side) : side \in Sides}
    \cup {Forfeit(side, reason) : side \in Sides, reason \in {"timeout", "invalid"}}
    \cup {[type |-> kind] : kind \in {"stalemate", "draw-repetition",
                                      "draw-insufficient", "draw-50-move"}}

\* What getState() may return after `await play()`: a finished game, or a
\* game that pause() or reset() has stopped.
EndStates ==
    {[status |-> "finished", result |-> r] : r \in GameResults}
    \cup {[status |-> s, result |-> NoResult] : s \in {"idle", "paused"}}

getWinnerColor(result) ==
    IF result = NoResult THEN "null"
    ELSE IF result.type = "checkmate" THEN result.winner
    ELSE IF result.type = "forfeit" THEN (IF result.loser = "w" THEN "b" ELSE "w")
    ELSE "null"

getGameWinReason(result) ==
    IF result = NoResult THEN "draw-50-move"
    ELSE IF result.type \in {"checkmate", "stalemate", "draw-repetition",
                             "draw-insufficient", "draw-50-move"}
    THEN result.type
    ELSE IF result.type = "forfeit"
    THEN (IF result.reason = "timeout" THEN "timeout" ELSE "invalid-move")
    ELSE "draw-50-move"

MatchResult(winner, loser, reason) ==
    [winner |-> winner, loser |-> loser, reason |-> reason]

NoMatch ==
    [pc |-> "none", whiteBot |-> NoBot, blackBot |-> NoBot,
     timeLimitMs |-> DEFAULT_TIME_LIMIT_MS,
     tournamentTimeLimitMs |-> DEFAULT_TIME_LIMIT_MS,
     originalTimeLimit |-> DEFAULT_TIME_LIMIT_MS,
     whiteBotWins |-> 0, blackBotWins |-> 0, gameNumber |-> 1,
     game2Winner |-> NoBot, game2Loser |-> NoBot, gameResults |-> <<>>,
     currentWhiteBot |-> NoBot, currentBlackBot |-> NoBot,
     winner |-> NoBot, loser |-> NoBot, error |-> "null", played |-> <<>>]

\* ---------------------------------------------------- the tournament page
\* The state of App (single elimination): what useState holds, and the locals
\* of the call of handleStartTournament that is awaiting a series.  Between
\* two awaits the handler runs to completion, and at every await the
\* TournamentState it last committed is its local tournamentState.
BotList == <<"A", "B", "C", "D", "E">>

NoTournament == [status |-> "null"]

\* The id of a match names its round and its place in it; this one is of no
\* match.
NoMatchId == <<"null", 0, 0>>

NoRun ==
    [pc |-> "none", totalRounds |-> 0, roundIndex |-> 0, matchIndex |-> 0,
     winners |-> <<>>, semifinalLosers |-> <<>>, champion |-> NoBot,
     runnerUp |-> NoBot, thirdPlace |-> NoBot, series |-> <<>>]

NoApp ==
    [bots |-> <<>>, tournament |-> NoTournament, tournamentRunning |-> FALSE,
     error |-> "null", run |-> NoRun]

\* The state of App (double elimination): what the page keeps of the
\* tournament, and the locals of the call of handleStartTournament.
NoDouble ==
    [pc |-> "none", tournamentRunning |-> FALSE, status |-> "null",
     error |-> "null", currentMatchBots |-> "null", matchLog |-> <<>>,
     headToHead |-> <<>>, reported |-> <<>>]

\* ------------------------------------------------------ bookkeeping
\* A human wait that nothing references any more can never resume.
Reachable(t) == t.wait = "human" => (t.resolver \/ t.hsig = "current")

Normalize(S) == [S EXCEPT !.tasks = SelectSeq(@, Reachable)]

Bounded(S) ==
    /\ Len(S.tasks) <= MaxTasks
    /\ \A side \in DOMAIN S.owed : Len(S.owed[side]) <= MaxOwed

Commit(S) ==
    /\ chess' = S.chess
    /\ state' = S.state
    /\ whiteWorker' = S.whiteWorker
    /\ blackWorker' = S.blackWorker
    /\ moveDelayMs' = S.moveDelayMs
    /\ abortController' = S.abortController
    /\ stepping' = S.stepping
    /\ humanMoveResolve' = S.humanMoveResolve
    /\ tasks' = S.tasks
    /\ loadPending' = S.loadPending
    /\ owed' = S.owed
    /\ UNCHANGED <<match, single, double>>

\* One macrotask: the engine moves to what the code leaves behind.
Do(S) ==
    LET N == Normalize(S)
    IN  Bounded(N) /\ Commit(N)

\* ------------------------------------------------------ the state machine
Init ==
    /\ chess = INITIAL_FEN
    /\ state = [status |-> "idle", result |-> NoResult, fen |-> INITIAL_FEN,
                moves |-> <<>>, currentTurn |-> "w", whitePlayer |-> NoPlayer,
                blackPlayer |-> NoPlayer, lastMoveTimeMs |-> 0,
                timeLimitMs |-> DEFAULT_TIME_LIMIT_MS]
    /\ whiteWorker = "null"
    /\ blackWorker = "null"
    /\ moveDelayMs = DEFAULT_MOVE_DELAY_MS
    /\ abortController = "null"
    /\ stepping = FALSE
    /\ humanMoveResolve = "null"
    /\ tasks = <<>>
    /\ loadPending = FALSE
    /\ owed = <<>>
    /\ match = NoMatch
    /\ single = NoApp
    /\ double = NoDouble

\* The caller of loadPlayers awaits it before it calls the engine again.
LoadPlayers ==
    \E whitePlayer \in Players, blackPlayer \in Players :
        LET N == Normalize(loadPlayers(Cur, whitePlayer, blackPlayer))
        IN  Bounded(N) /\ Commit(N)

Play ==
    /\ ~loadPending
    /\ Do(play(Cur))

Pause ==
    /\ ~loadPending
    /\ Do(pause(Cur))

Step ==
    /\ ~loadPending
    /\ Do(step(Cur))

SubmitHumanMove ==
    /\ ~loadPending
    /\ \E from \in FromSquares, to \in Kinds :
        Do(submitHumanMove(Cur, from, to))

Reset ==
    /\ ~loadPending
    /\ Do(reset(Cur))

Alive(side) == IF side = "w" THEN whiteWorker = "worker" ELSE blackWorker = "worker"

\* Every worker has answered its `load` message with `ready`.
WorkersReady ==
    /\ loadPending
    /\ Do(loadPlayersReady(Cur))

\* A worker answers its `load` message with an error, or the 30 s timer of
\* waitForReady fires.
LoadFails ==
    /\ loadPending
    /\ Do(loadPlayersFails(Cur))

\* A message event delivers `msg` to the listeners of the worker of `side`.
\* A worker answers its messages in order, `load` first.  Every request posts
\* one message and attaches one listener, and an answer detaches every
\* listener of its worker, so a worker with a listener attached always holds
\* a message it has not answered; an answer that finds no listener is dropped.
CanAnswer(side) ==
    /\ Alive(side)
    /\ ~loadPending
    /\ \E t \in Range(tasks) : Listening(t, side)

WorkerResult ==
    \E side \in Sides, uci \in Ucis, elapsed \in ElapsedMs, failure \in Failures :
        /\ CanAnswer(side)
        /\ Do(messageEvent(Cur, side, [type |-> "result", uci |-> uci],
                           elapsed, failure))

WorkerError ==
    \E side \in Sides, text \in ErrorTexts, elapsed \in ElapsedMs,
       failure \in Failures :
        /\ CanAnswer(side)
        /\ Do(messageEvent(Cur, side, [type |-> "error", message |-> text],
                           elapsed, failure))

\* The timer of a request fires.
RequestTimeout ==
    \E i \in 1..Len(tasks) :
        /\ tasks[i].wait = "move"
        /\ Do(requestTimeout(Cur, i))

\* The timer of a delay fires.
DelayElapsed ==
    \E i \in 1..Len(tasks) :
        /\ tasks[i].wait = "delay"
        /\ Do(delayElapsed(Cur, i))

Next ==
    \/ LoadPlayers
    \/ Play
    \/ Pause
    \/ Step
    \/ SubmitHumanMove
    \/ Reset
    \/ WorkersReady
    \/ LoadFails
    \/ WorkerResult
    \/ WorkerError
    \/ RequestTimeout
    \/ DelayElapsed

Spec == Init /\ [][Next]_vars

\* ------------------------------------- the same engine, workers followed
\* Every worker's messages are followed from construction on.
InitLate ==
    /\ chess = INITIAL_FEN
    /\ state = [status |-> "idle", result |-> NoResult, fen |-> INITIAL_FEN,
                moves |-> <<>>, currentTurn |-> "w", whitePlayer |-> NoPlayer,
                blackPlayer |-> NoPlayer, lastMoveTimeMs |-> 0,
                timeLimitMs |-> DEFAULT_TIME_LIMIT_MS]
    /\ whiteWorker = "null"
    /\ blackWorker = "null"
    /\ moveDelayMs = DEFAULT_MOVE_DELAY_MS
    /\ abortController = "null"
    /\ stepping = FALSE
    /\ humanMoveResolve = "null"
    /\ tasks = <<>>
    /\ loadPending = FALSE
    /\ owed = [side \in Sides |-> <<>>]
    /\ match = NoMatch
    /\ single = NoApp
    /\ double = NoDouble

\* A worker answers a message whose request has ended, and nothing listens.
WorkerAnswersLate ==
    \E side \in Sides :
        /\ Alive(side)
        /\ ~loadPending
        /\ \A t \in Range(tasks) : ~Listening(t, side)
        /\ owed[side] # <<>>
        /\ Do([Cur EXCEPT !.owed[side] = Tail(@)])

\* The timer of a request fires.  Every timer runs timeLimitMs + 1000 ms, so
\* the timers fire in the order the requests were made.
OldestRequestTimeout ==
    \E i \in 1..Len(tasks) :
        /\ tasks[i].wait = "move"
        /\ \A j \in 1..(i - 1) : tasks[j].wait # "move"
        /\ Do(requestTimeout(Cur, i))

NextLate ==
    \/ LoadPlayers
    \/ WorkersReady
    \/ LoadFails
    \/ Play
    \/ Reset
    \/ WorkerResult
    \/ WorkerError
    \/ WorkerAnswersLate
    \/ OldestRequestTimeout
    \/ DelayElapsed

SpecLate == InitLate /\ [][NextLate]_vars

\* --------------------------------------- the best-of-3 series, its steps
\* A faulty return that leaves the engine with the tournament's time limit.
returnMatchKeepsLimit(M, winner, loser) ==
    [M EXCEPT !.pc = "returned", !.winner = winner, !.loser = loser]

\* `finally`: the engine gets its time limit back, however the series ends.
returnMatch(M, winner, loser) ==
    [M EXCEPT !.pc = "returned", !.winner = winner, !.loser = loser,
              !.timeLimitMs = M.originalTimeLimit]

throwMatch(M, error) ==
    [M EXCEPT !.pc = "thrown", !.error = error,
              !.timeLimitMs = M.originalTimeLimit]

\* The colours of the game about to be played.
colorsNeverSwap(M) == [white |-> M.whiteBot, black |-> M.blackBot]

colors(M) ==
    IF M.gameNumber <= 2
    THEN [white |-> M.whiteBot, black |-> M.blackBot]
    ELSE IF M.game2Winner = M.whiteBot
    THEN [white |-> M.blackBot, black |-> M.whiteBot]
    ELSE [white |-> M.whiteBot, black |-> M.blackBot]

\* The head of the while loop, down to `await loadPlayers`.
nextGame(M) ==
    IF M.gameNumber <= 3
    THEN [M EXCEPT !.pc = "game",
                   !.currentWhiteBot = colors(M).white,
                   !.currentBlackBot = colors(M).black]
    ELSE throwMatch(M, "Best-of-3 match completed without winner")

\* A win in game 1 or 2: counted, logged, and the series ends at two wins.
winNoEarlyReturn(M, color, reason) ==
    LET winner == IF color = "w" THEN M.whiteBot ELSE M.blackBot
        loser == IF color = "w" THEN M.blackBot ELSE M.whiteBot
    IN  [M EXCEPT !.whiteBotWins = IF color = "w" THEN @ + 1 ELSE @,
                  !.blackBotWins = IF color = "b" THEN @ + 1 ELSE @,
                  !.game2Winner = IF M.gameNumber = 2 THEN winner ELSE @,
                  !.game2Loser = IF M.gameNumber = 2 THEN loser ELSE @,
                  !.gameResults = Append(@, MatchResult(winner, loser, reason))]

win(M, color, reason) ==
    LET winner == IF color = "w" THEN M.whiteBot ELSE M.blackBot
        loser == IF color = "w" THEN M.blackBot ELSE M.whiteBot
        M1 == [M EXCEPT !.whiteBotWins = IF color = "w" THEN @ + 1 ELSE @,
                        !.blackBotWins = IF color = "b" THEN @ + 1 ELSE @,
                        !.game2Winner = IF M.gameNumber = 2 THEN winner ELSE @,
                        !.game2Loser = IF M.gameNumber = 2 THEN loser ELSE @,
                        !.gameResults = Append(@, MatchResult(winner, loser, reason))]
        wins == IF color = "w" THEN M1.whiteBotWins ELSE M1.blackBotWins
    IN  IF wins = 2 THEN returnMatch(M1, winner, loser) ELSE M1

\* Game 3 ends the series.
gameThree(M, winnerColor, reason) ==
    IF winnerColor = "w"
    THEN returnMatch([M EXCEPT !.gameResults = Append(@,
                         MatchResult(M.currentWhiteBot, M.currentBlackBot, reason))],
                     M.currentWhiteBot, M.currentBlackBot)
    ELSE IF winnerColor = "b"
    THEN returnMatch([M EXCEPT !.gameResults = Append(@,
                         MatchResult(M.currentBlackBot, M.currentWhiteBot, reason))],
                     M.currentBlackBot, M.currentWhiteBot)
    ELSE LET M1 == [M EXCEPT !.gameResults = Append(@, MatchResult(
                        IF M.game2Winner # NoBot THEN M.game2Winner ELSE M.whiteBot,
                        IF M.game2Loser # NoBot THEN M.game2Loser ELSE M.blackBot,
                        reason))]
         IN  IF M.game2Winner = M.whiteBot
             THEN returnMatch(M1, M.whiteBot, M.blackBot)
             ELSE returnMatch(M1, M.blackBot, M.whiteBot)

\* play() has returned and the engine is in `st`: the rest of the loop body,
\* and the loop's next turn down to its await.
afterGame(M, st) ==
    LET M0 == [M EXCEPT !.played = Append(@, [white |-> M.currentWhiteBot,
                                              black |-> M.currentBlackBot,
                                              timeLimitMs |-> M.timeLimitMs,
                                              state |-> st])]
        winnerColor == getWinnerColor(st.result)
        reason == getGameWinReason(st.result)
        M1 == IF M0.gameNumber = 3 THEN gameThree(M0, winnerColor, reason)
              ELSE IF winnerColor \in Sides THEN win(M0, winnerColor, reason)
              ELSE M0
    IN  IF st.status # "finished" THEN throwMatch(M0, "Match aborted")
        ELSE IF M1.pc = "returned" THEN M1
        ELSE nextGame([M1 EXCEPT !.gameNumber = @ + 1])

playBotMatch(M, whiteBot, blackBot, tournamentTimeLimitMs) ==
    nextGame([NoMatch EXCEPT !.whiteBot = whiteBot, !.blackBot = blackBot,
                             !.tournamentTimeLimitMs = tournamentTimeLimitMs,
                             !.originalTimeLimit = M.timeLimitMs,
                             !.timeLimitMs = tournamentTimeLimitMs])

Engine == <<chess, state, whiteWorker, blackWorker, moveDelayMs, abortController,
            stepping, humanMoveResolve, tasks, loadPending, owed>>

\* A series is started when none is running.
PlayBotMatch ==
    \E whiteBot \in Bots, blackBot \in Bots, limit \in TimeLimits :
        /\ match.pc # "game"
        /\ whiteBot # blackBot
        /\ match' = playBotMatch(match, whiteBot, blackBot, limit)
        /\ UNCHANGED <<Engine, single, double>>

\* loadPlayers and play() have returned.
GameReturns ==
    \E st \in EndStates :
        /\ match.pc = "game"
        /\ match' = afterGame(match, st)
        /\ UNCHANGED <<Engine, single, double>>

\* loadPlayers rejects: a bot could not be loaded.
LoadRejects ==
    /\ match.pc = "game"
    /\ match' = throwMatch(match, "load")
    /\ UNCHANGED <<Engine, single, double>>

NextMatch ==
    \/ PlayBotMatch
    \/ GameReturns
    \/ LoadRejects

SpecMatch == Init /\ [][NextMatch]_vars

\* ------------------------------------------- single elimination, its steps
\* Math.ceil(Math.log2(n)) for n >= 1.
RECURSIVE CeilLog2(_)
CeilLog2(n) == IF n <= 1 THEN 0 ELSE 1 + CeilLog2((n + 1) \div 2)

\* shuffleBots gives back its bots in some order: here the order in which
\* `order`, a shuffle of every bot there is, has them.
Orders ==
    {p \in [1..MaxBots -> {BotList[i] : i \in 1..MaxBots}] :
        \A i, j \in 1..MaxBots : p[i] = p[j] => i = j}

shuffleBots(bots, order) == SelectSeq(order, LAMBDA b : b \in Range(bots))

roundTitle(roundIndex, totalRounds) ==
    IF roundIndex = totalRounds - 1 THEN "Final"
    ELSE IF roundIndex = totalRounds - 2 THEN "Semifinals"
    ELSE "Round"

\* buildRound pairs the bots two by two, a bot left over alone in its match.
buildRound(bots, roundIndex, totalRounds) ==
    [title |-> roundTitle(roundIndex, totalRounds),
     matches |-> [i \in 1..((Len(bots) + 1) \div 2) |->
        [id |-> <<"match", roundIndex, i - 1>>, roundIndex |-> roundIndex,
         matchIndex |-> i - 1,
         whiteBot |-> bots[2 * i - 1],
         blackBot |-> IF 2 * i <= Len(bots) THEN bots[2 * i] ELSE NoBot,
         gameResults |-> <<>>, winner |-> NoBot, loser |-> NoBot,
         status |-> "pending"]]]

updateMatch(A, roundIndex, matchIndex, status, winner, loser, gameResults) ==
    [A EXCEPT !.tournament.rounds[roundIndex + 1].matches[matchIndex + 1] =
        [@ EXCEPT !.status = status, !.winner = winner, !.loser = loser,
                  !.gameResults = gameResults]]

\* names.sort(): the usernames in the order of BotList.
Rank(bot) == CHOOSE i \in 1..Len(BotList) : BotList[i] = bot

sortedNames(winner, loser) ==
    IF Rank(winner) <= Rank(loser) THEN <<winner, loser>> ELSE <<loser, winner>>

\* names.join('-vs-')
headToHeadKey(names) == <<names[1], "-vs-", names[2]>>

trackHeadToHead(A, winner, loser) ==
    LET names == sortedNames(winner, loser)
        key == headToHeadKey(names)
        h2h == A.tournament.headToHead
        old == IF key \in DOMAIN h2h THEN h2h[key] ELSE [wins |-> 0, losses |-> 0]
        new == IF winner = names[1] THEN [old EXCEPT !.wins = @ + 1]
               ELSE [old EXCEPT !.losses = @ + 1]
    IN  [A EXCEPT !.tournament.headToHead =
            [k \in DOMAIN h2h \cup {key} |-> IF k = key THEN new ELSE h2h[k]]]

\* The end of the handler: the places are committed.
finishTournamentNoRunnerUp(A) ==
    [A EXCEPT !.tournament.status = "finished",
              !.tournament.champion = A.run.champion,
              !.tournament.thirdPlace = A.run.thirdPlace,
              !.tournament.currentMatchId = NoMatchId,
              !.tournamentRunning = FALSE,
              !.run.pc = "done"]

finishTournament(A) ==
    [A EXCEPT !.tournament.status = "finished",
              !.tournament.champion = A.run.champion,
              !.tournament.runnerUp = A.run.runnerUp,
              !.tournament.thirdPlace = A.run.thirdPlace,
              !.tournament.currentMatchId = NoMatchId,
              !.tournamentRunning = FALSE,
              !.run.pc = "done"]

\* After the rounds: the series for third place, or the end.
thirdPlaceRound(A) ==
    [title |-> "Third Place",
     matches |-> <<[id |-> <<"third-place", A.run.totalRounds, 0>>,
                    roundIndex |-> A.run.totalRounds,
                    matchIndex |-> 0,
                    whiteBot |-> A.run.semifinalLosers[1],
                    blackBot |-> A.run.semifinalLosers[2],
                    gameResults |-> <<>>, status |-> "pending",
                    winner |-> NoBot, loser |-> NoBot]>>]

afterRoundsNoThirdPlace(A) == finishTournament(A)

afterRounds(A) ==
    IF Len(A.run.semifinalLosers) = 2
    THEN [A EXCEPT !.tournament.rounds = Append(@, thirdPlaceRound(A)),
                   !.run.pc = "third"]
    ELSE finishTournament(A)

\* The end of a round: the last round, or the next one is built.
endOfRoundStopsAtTwo(A, order) ==
    IF Len(A.run.winners) <= 2
    THEN afterRounds([A EXCEPT !.run.champion =
            IF @ # NoBot THEN @
            ELSE IF A.run.winners # <<>> THEN A.run.winners[1] ELSE NoBot])
    ELSE [A EXCEPT !.tournament.rounds = Append(@,
                       buildRound(shuffleBots(A.run.winners, order),
                                  A.run.roundIndex + 1, A.run.totalRounds)),
                   !.run.roundIndex = @ + 1,
                   !.run.matchIndex = 0,
                   !.run.winners = <<>>]

endOfRound(A, order) ==
    IF Len(A.run.winners) <= 1
    THEN afterRounds([A EXCEPT !.run.champion =
            IF @ # NoBot THEN @
            ELSE IF A.run.winners # <<>> THEN A.run.winners[1] ELSE NoBot])
    ELSE [A EXCEPT !.tournament.rounds = Append(@,
                       buildRound(shuffleBots(A.run.winners, order),
                                  A.run.roundIndex + 1, A.run.totalRounds)),
                   !.run.roundIndex = @ + 1,
                   !.run.matchIndex = 0,
                   !.run.winners = <<>>]

\* A bot alone in its match advances.
byeKeepsPending(A) ==
    LET m == A.tournament.rounds[A.run.roundIndex + 1].matches[A.run.matchIndex + 1]
    IN  [A EXCEPT !.run.winners = Append(@, m.whiteBot),
                  !.run.matchIndex = @ + 1]

byeForgetsWinner(A) ==
    LET m == A.tournament.rounds[A.run.roundIndex + 1].matches[A.run.matchIndex + 1]
    IN  [updateMatch(A, A.run.roundIndex, A.run.matchIndex, "bye", m.whiteBot,
                     NoBot, m.gameResults)
            EXCEPT !.run.matchIndex = @ + 1]

bye(A) ==
    LET m == A.tournament.rounds[A.run.roundIndex + 1].matches[A.run.matchIndex + 1]
    IN  [updateMatch(A, A.run.roundIndex, A.run.matchIndex, "bye", m.whiteBot,
                     NoBot, m.gameResults)
            EXCEPT !.run.winners = Append(@, m.whiteBot),
                   !.run.matchIndex = @ + 1]

\* The series of a match is started: the handler awaits playBotMatch.
startMatch(A) ==
    LET m == A.tournament.rounds[A.run.roundIndex + 1].matches[A.run.matchIndex + 1]
    IN  [updateMatch([A EXCEPT !.tournament.currentMatchId = m.id],
                     A.run.roundIndex, A.run.matchIndex, "running", m.winner,
                     m.loser, m.gameResults)
            EXCEPT !.run.pc = "match"]

\* The two loops, from where the handler stands down to its next await or to
\* its end.
RECURSIVE runRounds(_, _)
runRounds(A, order) ==
    IF A.run.pc # "rounds" THEN A
    ELSE IF A.run.roundIndex >= Len(A.tournament.rounds) THEN afterRounds(A)
    ELSE LET matches == A.tournament.rounds[A.run.roundIndex + 1].matches
         IN  IF A.run.matchIndex >= Len(matches)
             THEN LET A1 == endOfRound(A, order)
                  IN  IF A1.run.pc = "rounds" THEN runRounds(A1, order) ELSE A1
             ELSE LET m == matches[A.run.matchIndex + 1]
                  IN  IF m.whiteBot # NoBot /\ m.blackBot = NoBot
                      THEN runRounds(bye(A), order)
                      ELSE IF m.whiteBot = NoBot \/ m.blackBot = NoBot
                      THEN runRounds([A EXCEPT !.run.matchIndex = @ + 1], order)
                      ELSE startMatch(A)

handleStartTournament(A, order) ==
    IF A.tournamentRunning \/ Len(A.bots) < 2 THEN A
    ELSE LET shuffled == shuffleBots(A.bots, order)
             totalRounds == CeilLog2(Len(shuffled))
         IN  runRounds(
                [A EXCEPT !.error = "null",
                          !.tournamentRunning = TRUE,
                          !.tournament =
                              [status |-> "running",
                               rounds |-> <<buildRound(shuffled, 0, totalRounds)>>,
                               currentMatchId |-> NoMatchId,
                               champion |-> NoBot, runnerUp |-> NoBot,
                               thirdPlace |-> NoBot, headToHead |-> <<>>],
                          !.run = [NoRun EXCEPT !.pc = "rounds",
                                                !.totalRounds = totalRounds]],
                order)

handleResetTournament(A) ==
    IF A.tournamentRunning THEN A
    ELSE [A EXCEPT !.tournament = NoTournament, !.tournamentRunning = FALSE]

\* What playBotMatch may return or throw for a series of its two bots, as its
\* games end.
SeriesEndStates ==
    {[status |-> "finished", result |-> Checkmate("w")],
     [status |-> "finished", result |-> Checkmate("b")],
     [status |-> "paused", result |-> NoResult]}

AfterOneGame(Ms) ==
    {M \in Ms : M.pc # "game"}
    \cup {afterGame(M, st) : M \in {M1 \in Ms : M1.pc = "game"}, st \in SeriesEndStates}
    \cup {throwMatch(M, "load") : M \in {M1 \in Ms : M1.pc = "game"}}

Series(whiteBot, blackBot) ==
    AfterOneGame(AfterOneGame(AfterOneGame(
        {playBotMatch(NoMatch, whiteBot, blackBot, DEFAULT_TIME_LIMIT_MS)})))

\* playBotMatch of a bracket match returns.
matchReturns(A, M, order) ==
    LET roundIndex == A.run.roundIndex
        title == A.tournament.rounds[roundIndex + 1].title
        A1 == updateMatch(A, roundIndex, A.run.matchIndex, "finished",
                          M.winner, M.loser, M.gameResults)
        A2 == trackHeadToHead(A1, M.winner, M.loser)
        A3 == [A2 EXCEPT
                  !.run.series = Append(@, [white |-> M.whiteBot, black |-> M.blackBot,
                                            games |-> Len(M.played)]),
                  !.run.winners = Append(@, M.winner),
                  !.run.semifinalLosers =
                      IF title = "Semifinals" THEN Append(@, M.loser) ELSE @,
                  !.run.champion = IF title = "Final" THEN M.winner ELSE @,
                  !.run.runnerUp = IF title = "Final" THEN M.loser ELSE @,
                  !.run.matchIndex = @ + 1,
                  !.run.pc = "rounds"]
    IN  runRounds(A3, order)

\* playBotMatch of the series for third place returns.
thirdPlaceReturns(A, M) ==
    LET A1 == [A EXCEPT !.run.thirdPlace = M.winner,
                        !.run.series = Append(@, [white |-> M.whiteBot,
                                                  black |-> M.blackBot,
                                                  games |-> Len(M.played)])]
        A2 == trackHeadToHead(A1, M.winner, M.loser)
    IN  finishTournament(updateMatch(A2, Len(A2.tournament.rounds) - 1, 0,
                                     "finished", M.winner, M.loser, M.gameResults))

\* playBotMatch throws: the catch of the handler.
matchThrowsUnreported(A, M) ==
    [A EXCEPT !.tournamentRunning = FALSE, !.run.pc = "failed"]

matchThrows(A, M) ==
    [A EXCEPT !.error = <<"Tournament failed: ", M.error>>,
              !.tournamentRunning = FALSE,
              !.run.pc = "failed"]

Rest == <<chess, state, whiteWorker, blackWorker, moveDelayMs, abortController,
          stepping, humanMoveResolve, tasks, loadPending, owed, match, double>>

\* The manifest of the bots is fetched.
ManifestLoads ==
    \E n \in 1..MaxBots :
        /\ single.bots = <<>>
        /\ single.run.pc = "none"
        /\ single' = [single EXCEPT !.bots = SubSeq(BotList, 1, n)]
        /\ UNCHANGED Rest

tournamentActive(A) == A.tournamentRunning \/ A.tournament.status = "running"

\* The button Start Tournament, while it is enabled.
StartTournament ==
    \E order \in Orders :
        /\ ~tournamentActive(single)
        /\ Len(single.bots) >= 2
        /\ single' = handleStartTournament(single, order)
        /\ UNCHANGED Rest

\* The button Reset Tournament, while it is enabled.  The call of
\* handleStartTournament has ended, and its locals are gone.
ResetTournament ==
    /\ ~tournamentActive(single)
    /\ single.tournament # NoTournament
    /\ single' = [handleResetTournament(single) EXCEPT !.run = NoRun]
    /\ UNCHANGED Rest

AwaitedMatch(A) ==
    IF A.run.pc = "match"
    THEN A.tournament.rounds[A.run.roundIndex + 1].matches[A.run.matchIndex + 1]
    ELSE A.tournament.rounds[Len(A.tournament.rounds)].matches[1]

MatchReturns ==
    \E order \in Orders :
        /\ single.run.pc = "match"
        /\ \E M \in Series(AwaitedMatch(single).whiteBot, AwaitedMatch(single).blackBot) :
              /\ M.pc = "returned"
              /\ single' = matchReturns(single, M, order)
        /\ UNCHANGED Rest

ThirdPlaceReturns ==
    /\ single.run.pc = "third"
    /\ \E M \in Series(AwaitedMatch(single).whiteBot, AwaitedMatch(single).blackBot) :
          /\ M.pc = "returned"
          /\ single' = thirdPlaceReturns(single, M)
    /\ UNCHANGED Rest

MatchThrows ==
    /\ single.run.pc \in {"match", "third"}
    /\ \E M \in Series(AwaitedMatch(single).whiteBot, AwaitedMatch(single).blackBot) :
          /\ M.pc = "thrown"
          /\ single' = matchThrows(single, M)
    /\ UNCHANGED Rest

NextSingle ==
    \/ ManifestLoads
    \/ StartTournament
    \/ ResetTournament
    \/ MatchReturns
    \/ ThirdPlaceReturns
    \/ MatchThrows

SpecSingle == Init /\ [][NextSingle]_vars

\* ------------------------------------------- double elimination, its steps
\* The moves of a game, as far as their think times go.
MoveLists ==
    {<<>>,
     <<[color |-> "w", timeMs |-> 1]>>,
     <<[color |-> "w", timeMs |-> 1], [color |-> "b", timeMs |-> 1]>>,
     <<[color |-> "w", timeMs |-> 2], [color |-> "b", timeMs |-> 1]>>,
     <<[color |-> "w", timeMs |-> 1], [color |-> "b", timeMs |-> 2]>>}

RECURSIVE getMoveTimeTotals(_)
getMoveTimeTotals(moves) ==
    IF moves = <<>> THEN [white |-> 0, black |-> 0]
    ELSE LET acc == getMoveTimeTotals(SubSeq(moves, 1, Len(moves) - 1))
             move == moves[Len(moves)]
         IN  IF move.color = "w" THEN [acc EXCEPT !.white = @ + move.timeMs]
             ELSE [acc EXCEPT !.black = @ + move.timeMs]

isDraw(result) ==
    result.type \in {"stalemate", "draw-repetition", "draw-insufficient",
                     "draw-50-move"}

\* playBotMatch of this page plays one game; `st` is the engine's state when
\* play() has returned.
playOneGame(whiteBot, blackBot, st) ==
    LET totals == getMoveTimeTotals(st.moves)
        matchTotalTimeMs == [white |-> totals.white, black |-> totals.black]
        winnerColor == getWinnerColor(st.result)
        reason == getGameWinReason(st.result)
        byTime == IF totals.white <= totals.black THEN whiteBot ELSE blackBot
        ret(winner, why) ==
            [thrown |-> "null", winner |-> winner,
             loser |-> IF winner = whiteBot THEN blackBot ELSE whiteBot,
             gameResults |-> <<MatchResult(winner,
                                  IF winner = whiteBot THEN blackBot ELSE whiteBot,
                                  why)>>,
             matchTotalTimeMs |-> matchTotalTimeMs]
    IN  IF st.status # "finished"
        THEN [thrown |-> "Match aborted", winner |-> NoBot, loser |-> NoBot,
              gameResults |-> <<>>, matchTotalTimeMs |-> matchTotalTimeMs]
        ELSE IF isDraw(st.result) THEN ret(byTime, "time-advantage")
        ELSE IF winnerColor = "w" THEN ret(whiteBot, reason)
        ELSE ret(blackBot, reason)

\* The score line handed to updateMatchResult.
scoreLine(whiteBot, blackBot, result) ==
    LET winnerScore == Len(SelectSeq(result.gameResults,
                                     LAMBDA r : r.winner = result.winner))
        loserScore == Len(result.gameResults) - winnerScore
        timeW == result.matchTotalTimeMs.white
        timeB == result.matchTotalTimeMs.black
        byTime == IF timeW <= timeB THEN whiteBot ELSE blackBot
    IN  IF winnerScore = loserScore
        THEN [winner |-> byTime,
              loser |-> IF byTime = whiteBot THEN blackBot ELSE whiteBot,
              winnerScore |-> 2, loserScore |-> 1]
        ELSE [winner |-> result.winner, loser |-> result.loser,
              winnerScore |-> winnerScore, loserScore |-> loserScore]

logOf(whiteBot, blackBot, gameResults) ==
    [i \in 1..Len(gameResults) |->
        [white |-> whiteBot, black |-> blackBot,
         winner |-> gameResults[i].winner, reason |-> gameResults[i].reason]]

trackHeadToHeadOf(h2h, winner, loser) ==
    LET names == sortedNames(winner, loser)
        key == headToHeadKey(names)
        old == IF key \in DOMAIN h2h THEN h2h[key] ELSE [wins |-> 0, losses |-> 0]
        new == IF winner = names[1] THEN [old EXCEPT !.wins = @ + 1]
               ELSE [old EXCEPT !.losses = @ + 1]
    IN  [k \in DOMAIN h2h \cup {key} |-> IF k = key THEN new ELSE h2h[k]]

\* playBotMatch has returned `result` for the match awaited.
matchPlayed(D, result) ==
    LET whiteBot == D.currentMatchBots.white
        blackBot == D.currentMatchBots.black
    IN  IF result.thrown # "null"
        THEN [D EXCEPT !.pc = "failed", !.tournamentRunning = FALSE,
                       !.error = <<"Tournament failed: ", result.thrown>>]
        ELSE [D EXCEPT
                !.matchLog = @ \o logOf(whiteBot, blackBot, result.gameResults),
                !.headToHead = trackHeadToHeadOf(@, result.winner, result.loser),
                !.reported = Append(@, [score |-> scoreLine(whiteBot, blackBot, result),
                                        gameResults |-> result.gameResults]),
                !.currentMatchBots = "null",
                !.pc = "ready"]

Others == <<chess, state, whiteWorker, blackWorker, moveDelayMs, abortController,
            stepping, humanMoveResolve, tasks, loadPending, owed, match, single>>

\* The button Start Tournament: the bots are registered with the bracket.
StartDouble ==
    /\ ~double.tournamentRunning
    /\ double.status # "running"
    /\ double' = [NoDouble EXCEPT !.pc = "ready", !.tournamentRunning = TRUE,
                                  !.status = "running"]
    /\ UNCHANGED Others

\* The bracket names a match that is ready, and its game is started.
MatchReady ==
    \E whiteBot \in Bots, blackBot \in Bots :
        /\ double.pc = "ready"
        /\ whiteBot # blackBot
        /\ Len(double.reported) < MaxMatches
        /\ double' = [double EXCEPT !.pc = "match",
                        !.currentMatchBots = [white |-> whiteBot, black |-> blackBot]]
        /\ UNCHANGED Others

\* The game of the match ends, and its score line is reported.
MatchPlayed ==
    \E st \in EndStates, moves \in MoveLists :
        /\ double.pc = "match"
        /\ double' = matchPlayed(double,
               playOneGame(double.currentMatchBots.white, double.currentMatchBots.black,
                           [status |-> st.status, result |-> st.result, moves |-> moves]))
        /\ UNCHANGED Others

\* The bracket has no match left: the standings are read.
NoMatchLeft ==
    /\ double.pc = "ready"
    /\ double' = [double EXCEPT !.pc = "done", !.status = "finished",
                                !.tournamentRunning = FALSE]
    /\ UNCHANGED Others

\* The button Reset Tournament.
ResetDouble ==
    /\ ~double.tournamentRunning
    /\ double.status = "finished"
    /\ double' = NoDouble
    /\ UNCHANGED Others

NextDouble ==
    \/ StartDouble
    \/ MatchReady
    \/ MatchPlayed
    \/ NoMatchLeft
    \/ ResetDouble

SpecDouble == Init /\ [][NextDouble]_vars

\* ------------------------------------------------------ properties
Results == {[type |-> "result", uci |-> uci] : uci \in Ucis}
Errors == {[type |-> "error", message |-> text] : text \in ErrorTexts}

\* The requests in flight: their timer is armed.
InFlight == {i \in 1..Len(tasks) : tasks[i].wait = "move"}

\* What the engine is left as by the timer of request i.
AfterTimeout(i) == requestTimeout(Cur, i)

\* What the engine may be left as by an answer `msg` of the worker of `side`.
AfterAnswer(side, msg) ==
    {messageEvent(Cur, side, msg, elapsed, failure) :
        elapsed \in ElapsedMs, failure \in Failures}

\* Every way the requests cancelled by one of `ops` may end, when no other
\* request ends with them: their timer, or an answer of a worker to which
\* only such requests listen.
LateOutcomes(ops) ==
    {AfterTimeout(i) : i \in {j \in InFlight : tasks[j].cancelled \in ops}}
    \cup UNION {AfterAnswer(side, msg) :
                   side \in {sd \in Sides :
                               /\ CanAnswer(sd)
                               /\ \A t \in Range(tasks) :
                                      Listening(t, sd) => t.cancelled \in ops},
                   msg \in Results \cup Errors}

\* C1: once pause() has cancelled a request in flight, nothing that request
\* produces later (a move, an error, its timeout) changes the GameState or the
\* position: the status stays paused, no record is appended, no result is set.
C1_PausedRequestIsInert ==
    state.status = "paused" =>
        \A S \in LateOutcomes({"pause"}) : S.state = state /\ S.chess = chess

\* C2: once reset() has cancelled an unresolved request, and as long as no new
\* play() or step() has begun, nothing that request produces adds a MoveRecord
\* or moves the position away from the initial one.
C2_ResetRequestIsInert ==
    (state.status = "idle" /\ state.moves = <<>> /\ chess = INITIAL_FEN) =>
        \A S \in LateOutcomes({"reset"}) :
            S.state.moves = <<>> /\ S.chess = INITIAL_FEN

\* A pending request is live while something can still end it: a human wait,
\* a delay, a move request whose worker has not been terminated.
Live(t) == t.wait \in {"human", "delay"} \/ (t.wait = "move" /\ ~t.dead)

\* C3: at most one pending request (agent move request, human move wait or
\* inter-move delay) is live at any time.
C3_OnePendingRequest ==
    Cardinality({i \in 1..Len(tasks) : Live(tasks[i])}) <= 1

\* C4: a request cancelled by pause(), reset() or loadPlayers() never ends a
\* game by forfeit, whether it resolves, fails or times out later.
C4_CancelledNeverForfeits ==
    state.status # "finished" =>
        \A S \in LateOutcomes({"pause", "reset", "load"}) :
            ~(S.state.status = "finished" /\ S.state.result.type = "forfeit")

C6_InvalidMoveForfeits ==
    \A side \in Sides, uci \in Ucis :
        (CanAnswer(side) /\ ~Legal(chess, UciFrom(uci), UciTo(uci))) =>
            \A S \in AfterAnswer(side, [type |-> "result", uci |-> uci]) :
                /\ S.state.status = "finished"
                /\ S.state.result = Forfeit(side, "invalid")
                /\ S.state.moves = state.moves
                /\ S.chess = chess
                /\ ~S.raised

\* C6 happens: the one request of a running game is answered with a malformed
\* string, which chess.move refuses by throwing, and the game ends by forfeit.
C6_Witness ==
    \E side \in Sides :
        /\ CanAnswer(side)
        /\ state.status = "running"
        /\ side = Turn(chess)
        /\ \A i \in InFlight : tasks[i].cancelled = "no"
        /\ LET S == messageEvent(Cur, side, [type |-> "result", uci |-> <<"w">>],
                                 7, "throw")
           IN  S.state.result = Forfeit(side, "invalid") /\ ~S.raised

\* C7: when an agent answers a move request with an error message, whatever
\* its text, the game is finished with forfeit(loser = that side, reason =
\* invalid).
C7_AgentErrorIsInvalid ==
    \A side \in Sides, msg \in Errors :
        CanAnswer(side) =>
            \A S \in AfterAnswer(side, msg) :
                /\ S.state.status = "finished"
                /\ S.state.result = Forfeit(side, "invalid")

\* C8: submitHumanMove with a move that is not legal in the current position
\* returns false and leaves the GameState, the position and the pending human
\* wait as they were.
C8_IllegalHumanMoveRefused ==
    \A from \in FromSquares, to \in Kinds :
        ~Legal(chess, from, to) =>
            LET S == submitHumanMove(Cur, from, to)
            IN  /\ S.returned = "false"
                /\ [S EXCEPT !.returned = "undefined"] = Cur

\* C8 happens: a human wait is pending, and a move of the wrong colour is
\* refused.
C8_Witness ==
    /\ state.status = "waiting-human"
    /\ humanMoveResolve = "resolve"
    /\ \E t \in Range(tasks) : t.wait = "human" /\ t.resolver
    /\ ~Legal(chess, Other(Turn(chess)), "none")
    /\ submitHumanMove(Cur, Other(Turn(chess)), "none").returned = "false"

\* C9: submitHumanMove is accepted only while a human wait is pending: at any
\* other moment of a game it returns false and changes neither position nor
\* history.
C9_HumanMoveOnlyWhileWaiting ==
    (humanMoveResolve = "null" /\ state.whitePlayer # NoPlayer /\ ~loadPending) =>
        \A from \in FromSquares, to \in Kinds :
            LET S == submitHumanMove(Cur, from, to)
            IN  /\ S.returned = "false"
                /\ S.chess = chess
                /\ S.state.moves = state.moves

\* C10: once the position is terminal and the game finished, the result is the
\* oracle's classification of the position, and a finished game never gets a
\* second, different result.
C10_FinishedOnceAsClassified ==
    [][/\ (state'.status = "finished" /\ IsGameOver(chess'))
           => state'.result = classify(chess')
       /\ (state.status = "finished" /\ state'.status = "finished")
           => state'.result = state.result]_vars

\* C11: finished is terminal.  Whatever happens in a loaded game whose status
\* is finished (play, step, pause, submitHumanMove, a late answer, a timer),
\* either the status stays finished with the same result, the same history and
\* the same position, or the status becomes idle (reset, loadPlayers).
C11_FinishedIsTerminal ==
    [][(state.status = "finished" /\ state.whitePlayer # NoPlayer) =>
          \/ state'.status = "idle"
          \/ /\ state'.status = "finished"
             /\ state'.result = state.result
             /\ state'.moves = state.moves
             /\ chess' = chess]_vars

\* The requests of a step() that nothing has cancelled.
StepRequests ==
    {i \in InFlight : tasks[i].kind = "step" /\ tasks[i].cancelled = "no"}

\* What one step() may leave behind, S, when its request ends: a game finished
\* by forfeit with no new record, or exactly one new record and then either a
\* finished game with the oracle's result, or a paused one with no request
\* issued.
OneMoveStepped(S) ==
    LET n == Len(S.state.moves) - Len(state.moves)
    IN  \/ /\ n = 0
           /\ S.state.status = "finished"
           /\ S.state.result.type = "forfeit"
        \/ /\ n = 1
           /\ IsGameOver(S.chess)
           /\ S.state.status = "finished"
           /\ S.state.result = classify(S.chess)
        \/ /\ n = 1
           /\ ~IsGameOver(S.chess)
           /\ S.state.status = "paused"
           /\ Len(S.tasks) < Len(tasks)
           /\ \A t \in Range(S.tasks) : t \in Range(tasks)

\* C12: a step() on an agent's turn executes exactly one move: when its
\* request ends (an answer of the worker, or its timer), exactly one MoveRecord
\* has been appended or the game is finished, and a game that is not over is
\* paused with no further request issued.
C12_StepExecutesOneMove ==
    \A i \in StepRequests :
        /\ OneMoveStepped(AfterTimeout(i))
        /\ (~tasks[i].dead /\ CanAnswer(tasks[i].turn)) =>
              \A msg \in Results \cup Errors :
                  \A S \in AfterAnswer(tasks[i].turn, msg) : OneMoveStepped(S)

\* The status a move settles into: of a play() by the new side to move, of a
\* step() paused.
SettledStatus(kind, S) ==
    IF kind = "play"
    THEN IF isHumanTurn(S) THEN "waiting-human" ELSE "running"
    ELSE "paused"

\* C13: after a move that leaves the game going, the status is waiting-human
\* or running, by the new side to move, when the move was made during play(),
\* and paused when it was made by a step(), a step() on a human turn completed
\* by submitHumanMove included.
C13_StatusAfterMove ==
    /\ \A from \in FromSquares :
          (humanMoveResolve = "resolve" /\ Legal(chess, from, "none")) =>
              LET i == CHOOSE i \in 1..Len(tasks) : tasks[i].resolver
                  S == submitHumanMove(Cur, from, "none")
              IN  S.state.status = SettledStatus(tasks[i].kind, S)
    /\ \A i \in InFlight :
          (tasks[i].cancelled = "no" /\ ~tasks[i].dead
             /\ CanAnswer(tasks[i].turn)
             /\ Legal(chess, tasks[i].turn, "none")) =>
              \A S \in AfterAnswer(tasks[i].turn,
                                   [type |-> "result",
                                    uci |-> MakeUci(tasks[i].turn, "none")]) :
                  S.state.status = SettledStatus(tasks[i].kind, S)

\* The side to move can be asked for a move: it is a human, or a bot whose
\* worker exists.
CanMove ==
    /\ ~IsGameOver(chess)
    /\ \/ isHumanTurn(Cur)
       \/ LET player == IF Turn(chess) = "w" THEN state.whitePlayer
                        ELSE state.blackPlayer
          IN  player.type = "bot" /\ Alive(Turn(chess))

\* C14: play() takes effect only from idle or paused, where it sets the status
\* by the side to move (waiting-human or running) and starts one move loop;
\* in running, waiting-human or finished it changes nothing: no second move
\* loop, no new pending request.
C14_PlayOnlyFromIdleOrPaused ==
    LET S == play(Cur)
    IN  /\ (state.status \in {"idle", "paused"} /\ CanMove) =>
              /\ S.state.status = IF isHumanTurn(Cur) THEN "waiting-human"
                                  ELSE "running"
              /\ Len(S.tasks) = Len(tasks) + 1
        /\ state.status \in {"running", "waiting-human", "finished"} =>
              /\ S.state = state
              /\ S.tasks = tasks
              /\ S.abortController = abortController
              /\ S.humanMoveResolve = humanMoveResolve

\* The inter-move delays in progress among the tasks ts.
Delays(ts) == Len(SelectSeq(ts, LAMBDA t : t.wait = "delay"))

\* C15: an inter-move delay is started only between two agent moves: none is
\* started by a human move, none before a human turn, and pause() and reset()
\* cancel the delay in progress.
C15_DelayOnlyBetweenAgentMoves ==
    /\ \A from \in FromSquares, to \in Kinds :
          Delays(submitHumanMove(Cur, from, to).tasks) <= Delays(tasks)
    /\ \A side \in Sides, msg \in Results :
          CanAnswer(side) =>
              \A S \in AfterAnswer(side, msg) :
                  Delays(S.tasks) > Delays(tasks) => ~isHumanTurn(S)
    /\ state.status \in {"running", "waiting-human"} =>
          Delays(pause(Cur).tasks) = 0
    /\ Delays(reset(Cur).tasks) = 0

\* C16: a response that a worker delivers after its request has timed out is
\* discarded: it leaves the GameState and the position alone and ends no other
\* request, also one made to the same worker after reset() and a new play().
C16_LateResponseIsDiscarded ==
    \A side \in DOMAIN owed :
        (/\ owed[side] # <<>>
         /\ Head(owed[side]) = "timeout"
         /\ CanAnswer(side)) =>
            \A msg \in Results \cup Errors : \A S \in AfterAnswer(side, msg) :
                /\ S.state = state
                /\ S.chess = chess
                /\ S.tasks = tasks

\* The bot that won game g of the series, NoBot for a draw.
WinnerOf(g) ==
    LET result == match.played[g].state.result
    IN  IF result.type = "checkmate"
        THEN (IF result.winner = "w" THEN match.played[g].white
              ELSE match.played[g].black)
        ELSE IF result.type = "forfeit"
        THEN (IF result.loser = "w" THEN match.played[g].black
              ELSE match.played[g].white)
        ELSE NoBot

\* The games among the first n finished ones that `bot` has won.
Wins(bot, n) == Cardinality({g \in 1..n : WinnerOf(g) = bot})

Finished(n) ==
    /\ Len(match.played) >= n
    /\ \A g \in 1..n : match.played[g].state.status = "finished"

Split == Finished(2) /\ \A bot \in {match.whiteBot, match.blackBot} : Wins(bot, 2) = 1

\* C17: a series goes on only while no side has two wins and fewer than three
\* games are played; it returns after two games exactly when one side has won
\* both, and else after three; a series whose games all finish returns one of
\* its two bots as winner and never fails with 'completed without winner'.
C17_SeriesEndsAtTwoWinsOrThreeGames ==
    LET n == Len(match.played)
        decided == \E bot \in {match.whiteBot, match.blackBot} : Wins(bot, n) >= 2
    IN  /\ match.pc = "game" => n < 3 /\ ~decided /\ match.gameNumber = n + 1
        /\ match.pc = "returned" =>
              /\ Finished(n)
              /\ \/ n = 2 /\ \E bot \in {match.whiteBot, match.blackBot} : Wins(bot, 2) = 2
                 \/ n = 3 /\ \A bot \in {match.whiteBot, match.blackBot} : Wins(bot, 2) < 2
              /\ {match.winner, match.loser} = {match.whiteBot, match.blackBot}
        /\ match.pc = "thrown" =>
              /\ match.error \in {"Match aborted", "load"}
              /\ ~Finished(n) \/ match.error = "load"

C17_Witness ==
    /\ match.pc = "returned"
    /\ Len(match.played) = 2
    /\ Wins(match.blackBot, 2) = 2

\* C18: games 1 and 2 have A as white and B as black; after a 1-1 split the
\* series plays a third game and no more, and the white side of game 3 is the
\* loser of game 2.
C18_ColoursOfTheGames ==
    /\ \A g \in 1..Len(match.played) :
          g <= 2 => /\ match.played[g].white = match.whiteBot
                    /\ match.played[g].black = match.blackBot
    /\ (match.pc = "game" /\ match.gameNumber <= 2) =>
          /\ match.currentWhiteBot = match.whiteBot
          /\ match.currentBlackBot = match.blackBot
    /\ Split =>
          /\ match.pc = "game" =>
                /\ Len(match.played) = 2
                /\ match.currentBlackBot = WinnerOf(2)
                /\ match.currentWhiteBot \in {match.whiteBot, match.blackBot} \ {WinnerOf(2)}
          /\ match.pc = "returned" =>
                /\ Len(match.played) = 3
                /\ match.played[3].black = WinnerOf(2)
                /\ match.played[3].white \in {match.whiteBot, match.blackBot} \ {WinnerOf(2)}

C18_Witness ==
    /\ Split
    /\ match.pc = "returned"
    /\ WinnerOf(2) = match.whiteBot
    /\ match.played[3].white = match.blackBot

\* C19: game 3 is played if and only if each side has exactly one win after
\* games 1 and 2.
C19_GameThreeOnlyOnSplit ==
    (match.pc \in {"game", "returned"} /\ Finished(2)) =>
        ((Len(match.played) = 3 \/ match.gameNumber = 3) <=> Split)

\* C20: when a series returns after game 3, its winner is the winner of game 3
\* if that game was decisive, and the winner of game 2 if game 3 was drawn,
\* whatever games 1 and 2 were.
C20_GameThreeDecides ==
    (match.pc = "returned" /\ Len(match.played) = 3) =>
        /\ WinnerOf(3) # NoBot => match.winner = WinnerOf(3)
        /\ WinnerOf(3) = NoBot => WinnerOf(2) # NoBot /\ match.winner = WinnerOf(2)

\* The rounds of the bracket: every round but the one for third place.
BracketRounds ==
    IF single.tournament = NoTournament THEN <<>>
    ELSE SelectSeq(single.tournament.rounds, LAMBDA r : r.title # "Third Place")

\* The least k with 2^k >= n.
RoundsFor(n) == CHOOSE k \in 0..n : 2 ^ k >= n /\ \A j \in 0..(k - 1) : 2 ^ j < n

\* C21: a single-elimination tournament of N >= 2 bots never has more than
\* ceil(log2 N) bracket rounds, and when it finishes it has played exactly
\* that many, the last of them one match whose winner is the champion.
C21_RoundsPlayed ==
    /\ Len(BracketRounds) <= RoundsFor(Len(single.bots))
    /\ single.tournament.status = "finished" =>
          /\ Len(single.bots) >= 2
          /\ Len(BracketRounds) = RoundsFor(Len(single.bots))
          /\ Len(BracketRounds[Len(BracketRounds)].matches) = 1
          /\ single.tournament.champion = BracketRounds[Len(BracketRounds)].matches[1].winner
          /\ single.tournament.champion # NoBot

C21_Witness ==
    /\ single.tournament.status = "finished"
    /\ Len(single.bots) = 3
    /\ Len(BracketRounds) = 2

\* The bots that play in a round.
BotsOf(round) ==
    ({round.matches[i].whiteBot : i \in 1..Len(round.matches)}
     \cup {round.matches[i].blackBot : i \in 1..Len(round.matches)}) \ {NoBot}

\* The matches of bracket round r that have one bot only.
Byes(r) ==
    {i \in 1..Len(BracketRounds[r].matches) :
        BracketRounds[r].matches[i].blackBot = NoBot}

\* The bots that enter bracket round r: every bot in round 1, then one winner
\* for each match of the round before.
Entering(r) ==
    IF r = 1 THEN Len(single.bots) ELSE Len(BracketRounds[r - 1].matches)

\* C22: a round entered by an odd number of bots has exactly one bye, a round
\* entered by an even number has none; the match of the bye never runs and has
\* no game and no loser, it gets status bye with its bot as winner, and that
\* bot plays in the next round; with 3 bots the champion is the winner of
\* round 2, which the bot with the bye has played.
C22_ByeAdvances ==
    /\ \A r \in 1..Len(BracketRounds) :
          /\ Cardinality(Byes(r)) = Entering(r) % 2
          /\ \A i \in Byes(r) :
                LET m == BracketRounds[r].matches[i]
                IN  /\ m.status \in {"pending", "bye"}
                    /\ m.gameResults = <<>>
                    /\ m.loser = NoBot
                    /\ r < Len(BracketRounds) => m.status = "bye"
                    /\ m.status = "bye" =>
                          /\ m.winner = m.whiteBot
                          /\ r < Len(BracketRounds)
                          /\ m.whiteBot \in BotsOf(BracketRounds[r + 1])
    /\ (single.tournament.status = "finished" /\ Len(single.bots) = 3) =>
          /\ Len(BracketRounds) = 2
          /\ single.tournament.champion = BracketRounds[2].matches[1].winner
          /\ \A i \in Byes(1) :
                BracketRounds[1].matches[i].whiteBot \in BotsOf(BracketRounds[2])

C22_Witness ==
    /\ single.tournament.status = "finished"
    /\ Len(single.bots) = 3
    /\ \E i \in Byes(1) :
          /\ BracketRounds[1].matches[i].status = "bye"
          /\ single.tournament.champion = BracketRounds[1].matches[i].whiteBot

\* The last match of the bracket.
LastMatch == BracketRounds[Len(BracketRounds)].matches[1]

ThirdPlaceRounds ==
    IF single.tournament = NoTournament THEN <<>>
    ELSE SelectSeq(single.tournament.rounds, LAMBDA r : r.title = "Third Place")

\* C23: when a tournament is finished, the last round of the bracket is one
\* finished match, its winner is the champion and its loser the runner-up; a
\* tournament of two bots has that one match only, and no third place.
C23_ChampionAndRunnerUp ==
    single.tournament.status = "finished" =>
        /\ Len(BracketRounds[Len(BracketRounds)].matches) = 1
        /\ LastMatch.status = "finished"
        /\ LastMatch.winner \in {LastMatch.whiteBot, LastMatch.blackBot}
        /\ single.tournament.champion = LastMatch.winner
        /\ single.tournament.runnerUp = LastMatch.loser
        /\ {LastMatch.winner, LastMatch.loser} = {LastMatch.whiteBot, LastMatch.blackBot}
        /\ Len(single.bots) = 2 =>
              /\ Len(single.tournament.rounds) = 1
              /\ {single.tournament.champion, single.tournament.runnerUp} = Range(single.bots)
              /\ single.tournament.thirdPlace = NoBot
              /\ Len(single.run.series) = 1

C23_Witness ==
    /\ single.tournament.status = "finished"
    /\ Len(single.bots) = 2
    /\ single.tournament.champion = "B"
    /\ single.tournament.runnerUp = "A"
    /\ single.run.series[1].games = 2

\* The losers of the semifinals: of the finished matches of the round before
\* the last round of the bracket.
SemifinalLosers ==
    IF Len(BracketRounds) < 2 THEN <<>>
    ELSE LET ms == SelectSeq(BracketRounds[Len(BracketRounds) - 1].matches,
                             LAMBDA m : m.status = "finished")
         IN  [i \in 1..Len(ms) |-> ms[i].loser]

\* C24: a series for third place exists only once the final is finished and
\* the semifinals have exactly two losers, and it is between those two; a
\* finished tournament has played it if and only if there are exactly two
\* semifinal losers, and then its winner is thirdPlace, else nobody is.
C24_ThirdPlaceSeries ==
    /\ ThirdPlaceRounds # <<>> =>
          /\ Len(ThirdPlaceRounds) = 1
          /\ Len(BracketRounds) = single.run.totalRounds
          /\ LastMatch.status = "finished"
          /\ Len(SemifinalLosers) = 2
          /\ ThirdPlaceRounds[1].matches[1].whiteBot = SemifinalLosers[1]
          /\ ThirdPlaceRounds[1].matches[1].blackBot = SemifinalLosers[2]
          /\ SemifinalLosers[1] # SemifinalLosers[2]
    /\ single.run.pc = "third" => ThirdPlaceRounds # <<>>
    /\ single.tournament.status = "finished" =>
          /\ ThirdPlaceRounds # <<>> <=> Len(SemifinalLosers) = 2
          /\ ThirdPlaceRounds # <<>> =>
                /\ ThirdPlaceRounds[1].matches[1].status = "finished"
                /\ ThirdPlaceRounds[1].matches[1].winner \in Range(SemifinalLosers)
                /\ single.tournament.thirdPlace = ThirdPlaceRounds[1].matches[1].winner
                /\ Len(single.run.series) = 4
          /\ ThirdPlaceRounds = <<>> => single.tournament.thirdPlace = NoBot

C24_Witness ==
    /\ single.tournament.status = "finished"
    /\ Len(single.bots) = 4
    /\ ThirdPlaceRounds # <<>>
    /\ single.tournament.thirdPlace = ThirdPlaceRounds[1].matches[1].blackBot

\* C25: while a round of the bracket is followed by another round, or by the
\* round for third place, each of its matches is finished or a bye: no match
\* of a later round exists, let alone runs, while one of this round is
\* pending or running.
C25_RoundsInTurn ==
    \A r \in 1..Len(BracketRounds) :
        (r < Len(BracketRounds) \/ ThirdPlaceRounds # <<>>) =>
            \A i \in 1..Len(BracketRounds[r].matches) :
                BracketRounds[r].matches[i].status \in {"finished", "bye"}

C25_Witness ==
    /\ Len(single.bots) = 4
    /\ Len(BracketRounds) = 2
    /\ BracketRounds[2].matches[1].status = "running"
    /\ single.run.pc = "match"

\* The games of the series played so far between bots a and b.
RECURSIVE GamesBetween(_, _, _)
GamesBetween(series, a, b) ==
    IF series = <<>> THEN 0
    ELSE (IF {Head(series).white, Head(series).black} = {a, b}
          THEN Head(series).games ELSE 0)
         + GamesBetween(Tail(series), a, b)

\* C26: the head-to-head map has one entry for two bots, under the same key
\* whichever is named first, and its wins plus its losses is the number of
\* games the two have played against each other.
C26_HeadToHeadCountsGames ==
    single.tournament # NoTournament =>
        \A a, b \in Range(single.bots) :
            a # b =>
                LET key == headToHeadKey(sortedNames(a, b))
                    h2h == single.tournament.headToHead
                    games == GamesBetween(single.run.series, a, b)
                IN  /\ key = headToHeadKey(sortedNames(b, a))
                    /\ IF key \in DOMAIN h2h
                       THEN h2h[key].wins + h2h[key].losses = games
                       ELSE games = 0

GamesWon(gameResults, bot) == Len(SelectSeq(gameResults, LAMBDA r : r.winner = bot))

\* C28: the score line reported to the bracket for a match is the number of
\* games its winner has won and the number its loser has won, and 2-1 for the
\* winner when the match was decided by time advantage.
C28_ScoreLineReported ==
    \A i \in 1..Len(double.reported) :
        LET score == double.reported[i].score
            gameResults == double.reported[i].gameResults
        IN  IF \E g \in 1..Len(gameResults) : gameResults[g].reason = "time-advantage"
            THEN score.winnerScore = 2 /\ score.loserScore = 1
            ELSE /\ score.winnerScore = GamesWon(gameResults, score.winner)
                 /\ score.loserScore = GamesWon(gameResults, score.loser)

\* C29: a series has one game result for each game it has played, draws
\* included, in the order of play, the g-th for the g-th game.
C29_OneResultPerGame ==
    match.pc \in {"game", "returned"} =>
        /\ Len(match.gameResults) = Len(match.played)
        /\ \A g \in 1..Len(match.gameResults) :
              match.gameResults[g].reason = getGameWinReason(match.played[g].state.result)

\* Every match of the tournament, round after round.
RECURSIVE allMatches(_)
allMatches(rounds) ==
    IF rounds = <<>> THEN <<>> ELSE Head(rounds).matches \o allMatches(Tail(rounds))

\* currentMatch: the first match whose id is currentMatchId.
currentMatch(A) ==
    LET ms == IF A.tournament = NoTournament THEN <<>>
              ELSE SelectSeq(allMatches(A.tournament.rounds),
                             LAMBDA m : m.id = A.tournament.currentMatchId)
    IN  IF ms = <<>> THEN [id |-> NoMatchId] ELSE Head(ms)

\* C30: while the handler awaits a series, also the one for third place, the
\* current match is the match of that series, its status is running, and no
\* other match is running.
C30_CurrentMatchIsTheSeries ==
    single.run.pc \in {"match", "third"} =>
        /\ currentMatch(single) = AwaitedMatch(single)
        /\ AwaitedMatch(single).status = "running"
        /\ \A i \in 1..Len(allMatches(single.tournament.rounds)) :
              LET m == allMatches(single.tournament.rounds)[i]
              IN  m.status = "running" => m.id = AwaitedMatch(single).id

\* A step of the call of handleStartTournament in which the series it awaits
\* ends without a result: every return of playBotMatch adds to run.series.
SeriesFails ==
    /\ single.run.pc \in {"match", "third"}
    /\ single' # single
    /\ Len(single'.run.series) = Len(single.run.series)

\* C31: a series that fails halts the tournament: the call of
\* handleStartTournament ends there, the error is reported, no champion is
\* set, and no match is started, changed or played again, neither by the
\* failing step nor while the failure stands.
C31_FailedSeriesHalts ==
    [][/\ SeriesFails =>
             /\ single'.run.pc = "failed"
             /\ single'.error # "null"
             /\ ~single'.tournamentRunning
             /\ single'.tournament = single.tournament
             /\ single'.tournament.champion = NoBot
       /\ single.run.pc = "failed" /\ single' # single =>
             \/ single'.tournament = NoTournament
             \/ \E order \in Orders : single' = handleStartTournament(single, order)]_vars

C31_Witness ==
    /\ single.run.pc = "failed"
    /\ Len(single.run.series) >= 1
    /\ single.error # "null"
    /\ single.tournament.champion = NoBot

\* What an operation of the engine may leave behind, from the state it is in:
\* an answer of a worker to the request in flight, a human move that is
\* waited for, reset() and
\* loadPlayers().
Operations ==
    UNION {AfterAnswer(side, msg) :
              side \in {sd \in Sides : CanAnswer(sd)}, msg \in Results \cup Errors}
    \cup {submitHumanMove(Cur, from, to) :
              from \in {f \in FromSquares : humanMoveResolve # "null"}, to \in Kinds}
    \cup {reset(Cur)}
    \cup {loadPlayers(Cur, whitePlayer, blackPlayer) :
              whitePlayer \in Players, blackPlayer \in Players}

\* C32: a GameState handed to a consumer is a copy: whatever the engine does
\* next, the snapshot reads as it read when it was handed out, its move
\* history included.
C32_SnapshotIsACopy ==
    \A S \in Operations : S.handed.state = state

\* The engine S stands at the start of a game between the two players.
EndsIdle(S, whitePlayer, blackPlayer) ==
    /\ S.state.status = "idle"
    /\ S.state.result = NoResult
    /\ S.state.moves = <<>>
    /\ S.chess = INITIAL_FEN
    /\ S.state.fen = INITIAL_FEN
    /\ Turn(S.chess) = "w"
    /\ S.state.currentTurn = "w"
    /\ S.state.whitePlayer = whitePlayer
    /\ S.state.blackPlayer = blackPlayer

C34_FinishedIffResult ==
    (state.status = "finished") <=> (state.result # NoResult)

\* A game has ended as the oracle classifies its position, and it is a draw.
C34_Witness ==
    /\ state.status = "finished"
    /\ IsGameOver(chess)
    /\ state.result = classify(chess)
    /\ state.result.type = "stalemate"

\* What a worker may send (WorkerOutMessage).
WorkerOutMessages == Results \cup Errors \cup {[type |-> "ready"]}

\* The request i of the move loop has settled and left the engine as S: the
\* game is finished (a forfeit, or the move has ended it), or the move is in
\* the history and the loop has gone on to its next wait.
Settled(S) ==
    \/ S.state.status = "finished"
    \/ /\ Len(S.state.moves) = Len(state.moves) + 1
       /\ S.tasks # <<>>

\* C35: a request of an uninterrupted play() between two agents settles on
\* whatever message its worker sends, and on its timer when the worker sends
\* nothing: the move loop is never left waiting forever on one turn.
C35_RequestSettles ==
    \A i \in InFlight :
        (/\ Len(tasks) = 1
         /\ tasks[i].kind = "play"
         /\ tasks[i].cancelled = "no"
         /\ ~tasks[i].dead
         /\ CanAnswer(tasks[i].turn)) =>
            /\ Settled(AfterTimeout(i))
            /\ \A msg \in WorkerOutMessages :
                  \A S \in AfterAnswer(tasks[i].turn, msg) : Settled(S)

\* The least integer that is at least n / 2.
CeilHalf(n) == CHOOSE k \in 0..n : 2 * k >= n /\ 2 * (k - 1) < n

\* C36: the i-th record of the history, appended when the history held i - 1
\* moves, carries the move number ceil((i - 1) / 2) + 1, whether an agent or
\* a human made the move.
C36_MoveNumber ==
    \A i \in 1..Len(state.moves) :
        state.moves[i].moveNumber = CeilHalf(i - 1) + 1

\* A second move has been appended, by an agent or by a human.
C36_Witness ==
    /\ Len(state.moves) >= 2
    /\ state.moves[1].moveNumber = 1
    /\ state.moves[2].moveNumber = 2

\* C37: while the status is running a request of an agent or a delay between
\* two moves is pending in a move loop or a step that is still alive, and
\* while it is waiting-human a wait for the human's move is pending.
C37_SomethingInProgress ==
    /\ state.status = "running" =>
          \E t \in Range(tasks) :
              \/ t.wait = "delay"
              \/ t.wait = "move" /\ ~t.dead
    /\ state.status = "waiting-human" =>
          \E t \in Range(tasks) : t.wait = "human" /\ t.resolver

\* C38: the winner a series returns has won at least as many of its games as
\* the loser, however its games ended.
C38_WinnerHasNotFewerWins ==
    match.pc = "returned" =>
        Wins(match.winner, Len(match.played)) >= Wins(match.loser, Len(match.played))

C40_EndedTournamentIsNotRunning ==
    single.run.pc \in {"done", "failed"} =>
        /\ single.tournament.status # "running"
        /\ ~tournamentActive(single)
        /\ handleResetTournament(single).tournament = NoTournament
        /\ \A order \in Orders :
              handleStartTournament(single, order).tournament.status = "running"

====
